---- MODULE Spec2Model ----
(***************************************************************************)
(* cohorts_viz.py: training-loop controller (run_simulation), replay       *)
(* runner (run_visualization_episode) and cohort visualizer                *)
(* (visualize_agents_by_cohort).  The environment InfectionEnv lives in    *)
(* pandemic_cohorts and is modelled from its contract: its outcomes are    *)
(* nondeterministic choices over small sets.                               *)
(*                                                                         *)
(* Numbers: exploration rates are fixed-point, Scale units = 1.0; rates    *)
(* and means are reduced fractions <<n, d>>.                               *)
(***************************************************************************)
EXTENDS Integers, Sequences, FiniteSets, TLC

\* ---------------------------------------------------------------- bounds
\* num_episodes = 1000 in the source
NumEpisodes == 2
\* max_steps = 28 in the source (training runs)
MaxSteps == 2
\* num_people = 100 in the source (training runs)
TrainPeople == 1
\* population of the environment handed to the replay runner
ReplayPeople == 2
\* env.max_steps of the environment handed to the replay runner
ReplayMaxSteps == 8
\* population handed to the statistics reductions when drawn directly
AggPeople == 3
\* largest value a decision-table cell takes
MaxQ == 1
\* period of the rolling summary, 100 in the source
SummaryEvery == 2

\* ------------------------------------------------------ program constants
TallyEvery == 7
TextBlocks == 3
NumCohorts == 3
Scale == 10 ^ 3
epsilon_start == Scale
epsilon_end == Scale \div 100

Healths == {"susceptible", "exposed", "infected", "recovered", "dead"}
Cohorts == 0 .. (NumCohorts - 1)
Rewards == {0, 1}
Actions == {0, 1}

\* ---------------------------------------------------------------- helpers
Min(a, b) == IF a <= b THEN a ELSE b
Max(a, b) == IF a >= b THEN a ELSE b

RECURSIVE GCD(_, _)
GCD(a, b) == IF b = 0 THEN a ELSE GCD(b, a % b)

\* the value n / d as a reduced fraction
Frac(n, d) == LET g == GCD(n, d) IN IF g = 0 THEN <<0, 1>> ELSE <<n \div g, d \div g>>

FracAdd(x, y) == Frac(x[1] * y[2] + y[1] * x[2], x[2] * y[2])

\* x / k for an integer k > 0
FracDiv(x, k) == Frac(x[1], x[2] * k)

RECURSIVE SumSeq(_)
SumSeq(s) == IF s = <<>> THEN 0 ELSE Head(s) + SumSeq(Tail(s))

RECURSIVE SumFracSeq(_)
SumFracSeq(s) == IF s = <<>> THEN <<0, 1>> ELSE FracAdd(Head(s), SumFracSeq(Tail(s)))

\* s[-n:]
LastN(s, n) == SubSeq(s, Max(1, Len(s) - n + 1), Len(s))

RECURSIVE SumOver(_, _)
SumOver(f, S) == IF S = {} THEN 0
                 ELSE LET i == CHOOSE j \in S : TRUE IN f[i] + SumOver(f, S \ {i})

RECURSIVE Pow(_, _)
Pow(b, n) == IF n = 0 THEN 1 ELSE b * Pow(b, n - 1)


\* ------------------------------------------------------------------ state
VARIABLES
    pc,              \* position in main(): run_simulation, then the replay
    num_people,      \* run_simulation's num_people / len(env.people)
    max_steps,       \* run_simulation's max_steps / env.max_steps
    episode,         \* loop variable of "for episode in range(num_episodes)"
    day,             \* loop variable of "for day in range(...)"
    episode_reward,  \* run_simulation's accumulator
    terminated,      \* flags returned by the last env.step
    truncated,
    all_stats,       \* the running statistics collection
    printed,         \* rolling summaries written to standard output
    people,          \* env.people: agent index -> agent record
    heap,            \* decision-table objects: reference -> content
    epsilon,         \* env.epsilon, fixed-point
    decay_rate,      \* env.decay_rate, fixed-point
    current_step,    \* env.current_step
    avg_mask_usage,  \* env.avg_mask_usage
    resets,          \* number of env.reset calls made
    decays,          \* number of env.decay_epsilon calls made
    stepLog,         \* (terminated, truncated) of each env.step call of the running episode
    rewardLog,       \* rewards returned to the running training episode
    q_tables,        \* the snapshot map: agent index i (key "agent_i") -> reference
    captured,        \* content of each snapshot entry at the time of extraction
    tallies,         \* health-state tallies written by the replay runner
    stats_text,      \* the visualizer's list of per-cohort statistics blocks
    figure_saved,    \* plt.savefig has written the image
    error            \* exception that ended the program, "none" if none

vars == <<pc, num_people, max_steps, episode, day, episode_reward, terminated,
          truncated, all_stats, printed, people, heap, epsilon, decay_rate,
          current_step, avg_mask_usage, resets, decays, stepLog, rewardLog,
          q_tables,
          captured, tallies, stats_text, figure_saved, error>>

envVars == <<people, heap, epsilon, current_step, avg_mask_usage, resets, decays>>
replayVars == <<tallies, stats_text, figure_saved>>

Agents == DOMAIN people
Refs == 0 .. (2 * num_people - 1)

\* ------------------------------------------------- the exploration schedule
\* Scale * (ratio / Scale) ** (1 / n), rounded to the nearest fixed-point value
RootFix(ratio, n) ==
    LET X == ratio * Pow(Scale, n - 1)
        f == CHOOSE r \in 0 .. Scale : Pow(r, n) <= X /\ Pow(r + 1, n) > X
    IN  IF X - Pow(f, n) <= Pow(f + 1, n) - X THEN f ELSE f + 1

\* variant: the root is taken over one episode too many
DecayRateOff(e_end, e_start, n) == RootFix((e_end * Scale) \div e_start, n + 1)

\* decay_rate = (epsilon_end / epsilon_start) ** (1 / num_episodes)
DecayRate(e_end, e_start, n) == RootFix((e_end * Scale) \div e_start, n)

\* x * y, rounded to the nearest fixed-point value
MulFix(x, y) == (2 * x * y + Scale) \div (2 * Scale)

\* env.decay_epsilon(): epsilon <- max(epsilon_end, epsilon * decay_rate)
DecayedEpsilon(eps, rate) == Max(epsilon_end, MulFix(eps, rate))

\* ---------------------------------------------------------- the environment
Agent(c, h, v, s, q, e) ==
    [cohort_id |-> c, health |-> h, vaccinated |-> v, social_contacts |-> s,
     q_table |-> q, epsilon |-> e]

\* InfectionEnv(num_people=..., epsilon=...): the population as constructed
MakePeople(P, eps) ==
    [i \in 0 .. (P - 1) |-> Agent(i % NumCohorts, "susceptible", 0, 0, i, eps)]

\* the health states an agent can be in one step after h
HealthNext(h) ==
    CASE h = "susceptible" -> {"susceptible", "exposed"}
      [] h = "exposed"     -> {"exposed", "infected"}
      [] h = "infected"    -> {"infected", "recovered", "dead"}
      [] OTHER             -> {h}

\* a table no snapshot entry refers to
NewTable(i) == IF \E k \in DOMAIN q_tables : q_tables[k] = i THEN i + num_people ELSE i

\* env.reset(): every agent susceptible again; the agents are either kept, with
\* their decision tables, or built anew with empty tables
EnvReset ==
    /\ \E fresh \in BOOLEAN :
         /\ people' = [i \in Agents |->
                         [people[i] EXCEPT !.health = "susceptible",
                                           !.epsilon = epsilon,
                                           !.q_table = IF fresh THEN NewTable(i) ELSE @]]
         /\ heap' = IF fresh
                    THEN [r \in Refs |-> IF \E i \in Agents : r = NewTable(i) THEN 0 ELSE heap[r]]
                    ELSE heap
    /\ current_step' = 0
    /\ resets' = resets + 1
    /\ UNCHANGED <<epsilon, avg_mask_usage, decays>>

\* agent i can catch the disease: agent 0 from outside the population, the others
\* from an infected agent
CanBeExposed(ppl, i) == i = 0 \/ \E j \in DOMAIN ppl : ppl[j].health = "infected"

\* env.step(actions) returning (reward, term, trunc): health moves on, every agent's
\* decision table is updated in place
EnvStep(actions, reward, term, trunc) ==
    /\ \E hs \in [Agents -> Healths] :
         /\ \A i \in Agents :
              /\ hs[i] \in HealthNext(people[i].health)
              /\ (hs[i] # people[i].health /\ hs[i] = "exposed") => CanBeExposed(people, i)
         /\ people' = [i \in Agents |-> [people[i] EXCEPT !.health = hs[i]]]
    /\ heap' = [r \in Refs |->
                  IF \E i \in Agents : people[i].q_table = r
                  THEN Min(heap[r] + 1, MaxQ) ELSE heap[r]]
    /\ current_step' = current_step + 1
    /\ stepLog' = Append(stepLog, [terminated |-> term, truncated |-> trunc])
    /\ UNCHANGED <<epsilon, avg_mask_usage, resets, decays>>

\* env.decay_epsilon()
EnvDecayEpsilon ==
    /\ epsilon' = DecayedEpsilon(epsilon, decay_rate)
    /\ people' = [i \in Agents |-> [people[i] EXCEPT !.epsilon = DecayedEpsilon(epsilon, decay_rate)]]
    /\ decays' = decays + 1
    /\ UNCHANGED <<heap, current_step, avg_mask_usage, resets>>

\* env.get_cohort_statistics(): per cohort, the number of agents in each health state
CohortStatistics(ppl) ==
    [c \in Cohorts |-> [h \in Healths |->
        Cardinality({i \in DOMAIN ppl : ppl[i].cohort_id = c /\ ppl[i].health = h})]]


\* ---------------------------------------------------- statistics aggregator
\* np.mean of the values f[i], i in S; nan (written <<0, 0>>) on an empty list
NpMean(f, S) == IF S = {} THEN <<0, 0>> ELSE Frac(SumOver(f, S), Cardinality(S))

\* variant: the dead are not filtered out
LivingAll(ppl) == DOMAIN ppl

\* [p for p in env.people if p.health != "dead"]
Living(ppl) == {i \in DOMAIN ppl : ppl[i].health # "dead"}

\* np.mean([p.vaccinated ...]) if any(p.health != "dead" ...) else 0
AvgVaccination(ppl) ==
    IF Living(ppl) # {}
    THEN NpMean([i \in DOMAIN ppl |-> ppl[i].vaccinated], Living(ppl))
    ELSE <<0, 1>>

\* np.mean([p.social_contacts ...]) if any(p.health != "dead" ...) else 0
AvgContacts(ppl) ==
    IF Living(ppl) # {}
    THEN NpMean([i \in DOMAIN ppl |-> ppl[i].social_contacts], Living(ppl))
    ELSE <<0, 1>>

NumInfected(ppl) == Cardinality({i \in DOMAIN ppl : ppl[i].health = "infected"})
NumDead(ppl) == Cardinality({i \in DOMAIN ppl : ppl[i].health = "dead"})

\* variant: 0-based keys
CohortKeyOff(ep) == ep

\* the key of all_stats['cohort_stats'][episode + 1]
CohortKey(ep) == ep + 1

EmptyStats ==
    [episode_rewards |-> <<>>, infection_rates |-> <<>>, death_rates |-> <<>>,
     vaccination_rates |-> <<>>, mask_usage_rates |-> <<>>,
     avg_social_contacts |-> <<>>, cohort_stats |-> <<>>]

\* the statistics after one episode's results are folded in
Folded(st, ep, reward, ppl, P, mask) ==
    [episode_rewards     |-> Append(st.episode_rewards, reward),
     infection_rates     |-> Append(st.infection_rates, Frac(NumInfected(ppl), P)),
     death_rates         |-> Append(st.death_rates, Frac(NumDead(ppl), P)),
     vaccination_rates   |-> Append(st.vaccination_rates, AvgVaccination(ppl)),
     mask_usage_rates    |-> Append(st.mask_usage_rates, mask),
     avg_social_contacts |-> Append(st.avg_social_contacts, AvgContacts(ppl)),
     cohort_stats        |-> (CohortKey(ep) :> CohortStatistics(ppl)) @@ st.cohort_stats]

\* the rolling summary of the last SummaryEvery episodes
Summary(st, ep) ==
    [episode        |-> ep + 1,
     avg_reward     |-> Frac(SumSeq(LastN(st.episode_rewards, SummaryEvery)), SummaryEvery),
     avg_infections |-> FracDiv(SumFracSeq(LastN(st.infection_rates, SummaryEvery)), SummaryEvery),
     avg_deaths     |-> FracDiv(SumFracSeq(LastN(st.death_rates, SummaryEvery)), SummaryEvery)]

\* ------------------------------------------------------------ run_simulation
\* variant: truncation does not end the episode
BreaksOnTerminatedOnly(term, trunc) == term

\* if terminated or truncated: break
LoopBreaks(term, trunc) == term \/ trunc

\* variant: the loop stops one episode short
MoreEpisodesOff(ep, n) == ep + 1 < n - 1

\* "for episode in range(num_episodes)" has another iteration after episode ep
MoreEpisodes(ep, n) == ep + 1 < n

\* obs, info = env.reset(); episode_reward = 0
Reset ==
    /\ pc = "reset"
    /\ EnvReset
    /\ episode_reward' = 0
    /\ day' = 0
    /\ stepLog' = <<>>
    /\ rewardLog' = <<>>
    /\ terminated' = FALSE
    /\ truncated' = FALSE
    /\ pc' = IF max_steps > 0 THEN "step" ELSE "fold"
    /\ UNCHANGED <<num_people, max_steps, episode, all_stats, printed, decay_rate,
                   q_tables, captured, error>>
    /\ UNCHANGED replayVars

\* one iteration of "for day in range(max_steps)"
Step ==
    /\ pc = "step"
    /\ \E actions \in [Agents -> Actions], reward \in Rewards,
          term \in BOOLEAN, trunc \in BOOLEAN :
         /\ EnvStep(actions, reward, term, trunc)
         /\ episode_reward' = episode_reward + reward
         /\ rewardLog' = Append(rewardLog, reward)
         /\ terminated' = term
         /\ truncated' = trunc
         /\ IF LoopBreaks(term, trunc) \/ day + 1 >= max_steps
            THEN pc' = "fold" /\ day' = day
            ELSE pc' = "step" /\ day' = day + 1
    /\ UNCHANGED <<num_people, max_steps, episode, all_stats, printed, decay_rate,
                   q_tables, captured, error>>
    /\ UNCHANGED replayVars

\* the end-of-episode reductions and the appends to all_stats
Fold ==
    /\ pc = "fold"
    /\ all_stats' = Folded(all_stats, episode, episode_reward, people, num_people,
                           avg_mask_usage)
    /\ pc' = "decay"
    /\ UNCHANGED <<num_people, max_steps, episode, day, episode_reward, terminated,
                   truncated, printed, decay_rate, stepLog, rewardLog, q_tables, captured,
                   error>>
    /\ UNCHANGED envVars
    /\ UNCHANGED replayVars

\* env.decay_epsilon(), the rolling summary, and the loop's next iteration
DecayEpsilon ==
    /\ pc = "decay"
    /\ EnvDecayEpsilon
    /\ printed' = IF (episode + 1) % SummaryEvery = 0
                  THEN Append(printed, Summary(all_stats, episode))
                  ELSE printed
    /\ IF MoreEpisodes(episode, NumEpisodes)
       THEN pc' = "reset" /\ episode' = episode + 1
       ELSE pc' = "extract" /\ episode' = episode
    /\ UNCHANGED <<num_people, max_steps, day, episode_reward, terminated, truncated,
                   all_stats, decay_rate, stepLog, rewardLog, q_tables, captured, error>>
    /\ UNCHANGED replayVars

\* q_tables[f"agent_{i}"] = person.q_table, for every agent
ExtractQTables(ppl) == [i \in DOMAIN ppl |-> ppl[i].q_table]

\* save_results, save_cohort_statistics, the snapshot loop and the return
Extract ==
    /\ pc = "extract"
    /\ q_tables' = ExtractQTables(people)
    /\ captured' = [i \in Agents |-> heap[people[i].q_table]]
    /\ pc' = "returned"
    /\ UNCHANGED <<num_people, max_steps, episode, day, episode_reward, terminated,
                   truncated, all_stats, printed, decay_rate, stepLog, rewardLog, error>>
    /\ UNCHANGED envVars
    /\ UNCHANGED replayVars

InitCommon(P, S) ==
    /\ num_people = P
    /\ max_steps = S
    /\ episode = 0
    /\ day = 0
    /\ episode_reward = 0
    /\ terminated = FALSE
    /\ truncated = FALSE
    /\ all_stats = EmptyStats
    /\ printed = <<>>
    /\ heap = [r \in 0 .. (2 * P - 1) |-> 0]
    /\ current_step = 0
    /\ avg_mask_usage = <<1, 2>>
    /\ resets = 0
    /\ decays = 0
    /\ stepLog = <<>>
    /\ rewardLog = <<>>
    /\ tallies = <<>>
    /\ stats_text = <<>>
    /\ figure_saved = FALSE
    /\ error = "none"

\* run_simulation up to its first env.reset
Init ==
    /\ InitCommon(TrainPeople, MaxSteps)
    /\ pc = "reset"
    /\ epsilon = epsilon_start
    /\ decay_rate = DecayRate(epsilon_end, epsilon_start, NumEpisodes)
    /\ people = MakePeople(TrainPeople, epsilon_start)
    /\ q_tables = <<>>
    /\ captured = <<>>

Next == Reset \/ Step \/ Fold \/ DecayEpsilon \/ Extract

Spec == Init /\ [][Next]_vars


\* -------------------------------------------------- run_visualization_episode
\* if terminated or truncated: break   (the replay loop)
ReplayBreaks(term, trunc) == term \/ trunc

\* variant: the tally comes on the 7th, 14th, ... step
TallyDueOff(d) == (d + 1) % TallyEvery = 0

\* if day % 7 == 0
TallyDue(d) == d % TallyEvery = 0

\* the counts printed as "Day d: S=.., E=.., I=.., R=.., D=.."
Tally(d, ppl) ==
    [day |-> d,
     S |-> Cardinality({i \in DOMAIN ppl : ppl[i].health = "susceptible"}),
     E |-> Cardinality({i \in DOMAIN ppl : ppl[i].health = "exposed"}),
     I |-> Cardinality({i \in DOMAIN ppl : ppl[i].health = "infected"}),
     R |-> Cardinality({i \in DOMAIN ppl : ppl[i].health = "recovered"}),
     D |-> Cardinality({i \in DOMAIN ppl : ppl[i].health = "dead"})]

\* variant: every agent is treated as having a key
HasKeyOff(qt, i) == TRUE

\* if f"agent_{i}" in q_tables
HasKey(qt, i) == i \in DOMAIN qt

\* person.q_table = q_tables[f"agent_{i}"]; person.epsilon = 0
Assigned(ppl, qt) ==
    [i \in DOMAIN ppl |->
        IF HasKey(qt, i)
        THEN [ppl[i] EXCEPT !.q_table = IF i \in DOMAIN qt THEN qt[i] ELSE @,
                            !.epsilon = 0]
        ELSE ppl[i]]

\* obs, info = env.reset()
ReplayReset ==
    /\ pc = "replay_reset"
    /\ EnvReset
    /\ stepLog' = <<>>
    /\ pc' = "replay_assign"
    /\ UNCHANGED <<num_people, max_steps, episode, day, episode_reward, terminated,
                   truncated, all_stats, printed, decay_rate, rewardLog, q_tables,
                   captured, error>>
    /\ UNCHANGED replayVars

\* the loop that installs the snapshot entries
ReplayAssign ==
    /\ pc = "replay_assign"
    /\ people' = Assigned(people, q_tables)
    /\ day' = 0
    /\ pc' = IF max_steps > 0 THEN "replay_step" ELSE "visualize"
    /\ UNCHANGED <<num_people, max_steps, episode, episode_reward, terminated, truncated,
                   all_stats, printed, decay_rate, stepLog, rewardLog, q_tables, captured,
                   error, heap, epsilon, current_step, avg_mask_usage, resets, decays>>
    /\ UNCHANGED replayVars

\* one iteration of "for day in range(env.max_steps)"
ReplayStep ==
    /\ pc = "replay_step"
    /\ \E actions \in [Agents -> Actions], reward \in Rewards,
          term \in BOOLEAN, trunc \in BOOLEAN :
         /\ EnvStep(actions, reward, term, trunc)
         /\ terminated' = term
         /\ truncated' = trunc
         /\ tallies' = IF TallyDue(day) THEN Append(tallies, Tally(day, people')) ELSE tallies
         /\ IF ReplayBreaks(term, trunc) \/ day + 1 >= max_steps
            THEN pc' = "visualize" /\ day' = day
            ELSE pc' = "replay_step" /\ day' = day + 1
    /\ UNCHANGED <<num_people, max_steps, episode, episode_reward, all_stats, printed,
                   decay_rate, rewardLog, q_tables, captured, error, stats_text,
                   figure_saved>>

\* ------------------------------------------------- visualize_agents_by_cohort
\* variant: members of the lower cohorts are counted too
CohortMembersOff(ppl, i) == {j \in DOMAIN ppl : ppl[j].cohort_id <= i}

\* [p for p in env.people if p.cohort_id == i]
CohortMembers(ppl, i) == {j \in DOMAIN ppl : ppl[j].cohort_id = i}

\* if total == 0: continue
SkipsCohort(total) == total = 0

HealthCount(ppl, M, h) == Cardinality({j \in M : ppl[j].health = h})

\* one statistics block: the cohort, its size, and the count and share of each state
Block(ppl, i) ==
    LET M == CohortMembers(ppl, i)
        total == Cardinality(M)
    IN  [cohort |-> i, n |-> total,
         susceptible |-> HealthCount(ppl, M, "susceptible"),
         exposed     |-> HealthCount(ppl, M, "exposed"),
         infected    |-> HealthCount(ppl, M, "infected"),
         recovered   |-> HealthCount(ppl, M, "recovered"),
         dead        |-> HealthCount(ppl, M, "dead"),
         dead_share  |-> Frac(HealthCount(ppl, M, "dead"), total)]

\* stats_text after the loop over cohorts i, i + 1, ..., in order
RECURSIVE StatsText(_, _)
StatsText(ppl, i) ==
    IF i >= NumCohorts THEN <<>>
    ELSE IF SkipsCohort(Cardinality(CohortMembers(ppl, i)))
         THEN StatsText(ppl, i + 1)
         ELSE <<Block(ppl, i)>> \o StatsText(ppl, i + 1)

\* a block is formatted for a cohort of no members: count / total divides by zero
DividesByZero(ppl) ==
    \E i \in Cohorts : LET total == Cardinality(CohortMembers(ppl, i))
                       IN  total = 0 /\ ~SkipsCohort(total)

\* env.render() and visualize_agents_by_cohort(env): the scatter plot, the blocks,
\* the three plt.figtext calls and plt.savefig
Visualize ==
    /\ pc = "visualize"
    /\ IF DividesByZero(people)
       THEN /\ error' = "ZeroDivisionError"
            /\ UNCHANGED <<stats_text, figure_saved>>
            /\ pc' = "error"
       ELSE /\ stats_text' = StatsText(people, 0)
            /\ IF Len(StatsText(people, 0)) < TextBlocks
               THEN error' = "IndexError" /\ figure_saved' = FALSE /\ pc' = "error"
               ELSE error' = "none" /\ figure_saved' = TRUE /\ pc' = "done"
    /\ UNCHANGED <<num_people, max_steps, episode, day, episode_reward, terminated,
                   truncated, all_stats, printed, decay_rate, stepLog, rewardLog,
                   q_tables, captured, tallies>>
    /\ UNCHANGED envVars

\* the arguments of run_visualization_episode: an environment after training and the
\* snapshot map run_simulation builds from it, possibly with keys missing
InitReplay ==
    /\ InitCommon(ReplayPeople, ReplayMaxSteps)
    /\ pc = "replay_reset"
    /\ epsilon = epsilon_end
    /\ decay_rate = DecayRate(epsilon_end, epsilon_start, NumEpisodes)
    /\ people = MakePeople(ReplayPeople, epsilon_end)
    /\ \E K \in SUBSET (0 .. (ReplayPeople - 1)) :
         /\ q_tables = [i \in K |-> ExtractQTables(people)[i]]
         /\ captured = [i \in K |-> heap[ExtractQTables(people)[i]]]

NextReplay == ReplayReset \/ ReplayAssign \/ ReplayStep \/ Visualize

SpecReplay == InitReplay /\ [][NextReplay]_vars

\* ------------------------------------- the reductions on a population drawn freely
\* a population of P agents, cohort by cohort, in any health state, vaccinated
\* (with 1 social contact) or not (with 3)
Population(cs, hs, vs) ==
    [i \in DOMAIN cs |-> Agent(cs[i], hs[i], vs[i], 3 - 2 * vs[i], i, epsilon_end)]

\* the end of an episode, or the end of the replay, with such a population
InitAgg ==
    /\ InitCommon(AggPeople, MaxSteps)
    /\ pc \in {"fold", "visualize"}
    /\ epsilon = epsilon_end
    /\ decay_rate = DecayRate(epsilon_end, epsilon_start, NumEpisodes)
    /\ \E cs \in [0 .. (AggPeople - 1) -> Cohorts],
          hs \in [0 .. (AggPeople - 1) -> Healths],
          vs \in [0 .. (AggPeople - 1) -> {0, 1}] :
         /\ \A i \in 1 .. (AggPeople - 1) : cs[i - 1] <= cs[i]
         /\ people = Population(cs, hs, vs)
    /\ q_tables = <<>>
    /\ captured = <<>>

NextAgg == Fold \/ Visualize

SpecAgg == InitAgg /\ [][NextAgg]_vars


\* ==================================================================== claims
Stops(r) == r.terminated \/ r.truncated

Completed == Len(all_stats.episode_rewards)

\* C1: snapshot isolation.  Every entry of the snapshot map still has the content it
\* had when it was extracted, whatever has happened to the live agents' tables since.
C1_SnapshotIsolation ==
    \A k \in DOMAIN q_tables : heap[q_tables[k]] = captured[k]

\* C2: the episode runner's stop rule.  No env.step call follows a step whose result
\* was terminated or truncated, at most max_steps calls are made, the loop is left only
\* after max_steps calls or after such a result, and the reward recorded for the
\* episode is the sum of the rewards those calls returned.
C2_StopRule ==
    /\ Len(stepLog) = current_step
    /\ Len(rewardLog) = Len(stepLog)
    /\ Len(stepLog) <= max_steps
    /\ \A i \in 1 .. (Len(stepLog) - 1) : ~Stops(stepLog[i])
    /\ pc \in {"fold", "decay"} =>
         \/ Len(stepLog) = max_steps
         \/ (Len(stepLog) > 0 /\ Stops(stepLog[Len(stepLog)]))
    /\ pc = "fold" => episode_reward = SumSeq(rewardLog)
    /\ (pc \in {"decay", "reset", "extract", "returned"} /\ Completed > 0) =>
         all_stats.episode_rewards[Completed] = SumSeq(rewardLog)

\* an episode cut short by truncation at its first step, its reward recorded
C2_Witness ==
    /\ pc = "decay"
    /\ Len(stepLog) = 1
    /\ max_steps > 1
    /\ stepLog[1].truncated /\ ~stepLog[1].terminated
    /\ rewardLog = <<1>>
    /\ all_stats.episode_rewards[Completed] = 1

\* where the calls of an episode stand at each position of the controller
C3_Order ==
    /\ pc = "reset" => resets = episode /\ Completed = episode /\ decays = episode
    /\ pc \in {"step", "fold"} =>
         resets = episode + 1 /\ Completed = episode /\ decays = episode
    /\ pc = "decay" =>
         resets = episode + 1 /\ Completed = episode + 1 /\ decays = episode
    /\ pc \in {"extract", "returned"} =>
         resets = NumEpisodes /\ Completed = NumEpisodes /\ decays = NumEpisodes
    /\ episode < NumEpisodes

\* what is left to run: whole episodes, and the positions left in the current one
C3_Rank ==
    LET perEpisode == max_steps + 4
        position == CASE pc = "reset"   -> 0
                      [] pc = "step"    -> 1 + day
                      [] pc = "fold"    -> max_steps + 1
                      [] pc = "decay"   -> max_steps + 2
                      [] pc = "extract" -> max_steps + 3
                      [] OTHER          -> max_steps + 4
    IN  (NumEpisodes - episode) * perEpisode - position

\* C3: the training loop ends, after exactly NumEpisodes episodes: every step brings
\* the return of run_simulation nearer, nothing but the return ends the run, and at
\* the return NumEpisodes episodes are done.  Each episode makes one env.reset, then
\* its steps, then the fold of its statistics, then one env.decay_epsilon, and the
\* next reset comes only after that; an episode that ends early ends alone.
C3_Terminates ==
    /\ []C3_Order
    /\ [](C3_Rank >= 0 /\ (C3_Rank = 0 <=> pc = "returned"))
    /\ [][C3_Rank' < C3_Rank]_vars

\* the second episode is about to start after a first one that terminated early
C3_Witness ==
    /\ pc = "reset"
    /\ episode = 1
    /\ Len(stepLog) = 1 /\ max_steps > 1 /\ stepLog[1].terminated
    /\ resets = 1 /\ decays = 1 /\ Completed = 1

EpsTol == Scale \div 1000

C4_Range ==
    /\ epsilon_end <= epsilon /\ epsilon <= epsilon_start
    /\ decays = NumEpisodes =>
         (epsilon - epsilon_end <= EpsTol /\ epsilon_end - epsilon <= EpsTol)
    /\ (NumEpisodes = 2 /\ decays = 1) => epsilon = Scale \div 10

\* C4: the exploration rate stays within [epsilon_end, epsilon_start], never increases,
\* and is epsilon_end (within one unit of the last place) after NumEpisodes decays; with
\* 1.0, 0.01 and two episodes it is 0.1 after the first.
C4_EpsilonSchedule == []C4_Range /\ [][epsilon' <= epsilon]_vars

\* the rate after the last episode's decay
C4_Witness == decays = NumEpisodes /\ NumEpisodes > 1 /\ epsilon = epsilon_end /\ pc = "extract"

IsPrefix(s, t) == Len(s) <= Len(t) /\ SubSeq(t, 1, Len(s)) = s

C5_Lengths ==
    /\ Len(all_stats.infection_rates) = Completed
    /\ Len(all_stats.death_rates) = Completed
    /\ Len(all_stats.vaccination_rates) = Completed
    /\ Len(all_stats.mask_usage_rates) = Completed
    /\ Len(all_stats.avg_social_contacts) = Completed
    /\ DOMAIN all_stats.cohort_stats = 1 .. Completed
    /\ Completed = IF pc \in {"step", "fold"} THEN resets - 1 ELSE resets

C5_AppendOnly ==
    /\ IsPrefix(all_stats.episode_rewards, all_stats'.episode_rewards)
    /\ IsPrefix(all_stats.infection_rates, all_stats'.infection_rates)
    /\ IsPrefix(all_stats.death_rates, all_stats'.death_rates)
    /\ IsPrefix(all_stats.vaccination_rates, all_stats'.vaccination_rates)
    /\ IsPrefix(all_stats.mask_usage_rates, all_stats'.mask_usage_rates)
    /\ IsPrefix(all_stats.avg_social_contacts, all_stats'.avg_social_contacts)
    /\ Len(all_stats'.episode_rewards) <= Completed + 1
    /\ \A k \in DOMAIN all_stats.cohort_stats :
         k \in DOMAIN all_stats'.cohort_stats
         /\ all_stats'.cohort_stats[k] = all_stats.cohort_stats[k]
    /\ printed' # printed => all_stats' = all_stats

\* C5: after k completed episodes each of the six lists has k entries and cohort_stats
\* has the keys 1..k; entries are only ever appended, one episode at a time, and the
\* rolling summary changes nothing.
C5_Statistics == []C5_Lengths /\ [][C5_AppendOnly]_vars

\* two episodes recorded and a rolling summary printed
C5_Witness == Len(printed) > 0 /\ Completed = 2 /\ DOMAIN all_stats.cohort_stats = {1, 2}

\* C6: when every agent is dead at the end of an episode the recorded average
\* vaccination and average social contacts are 0 and nothing is raised; otherwise each
\* is the mean over the agents that are not dead.
C6_LivingMeans ==
    (pc = "decay" /\ Completed > 0) =>
        LET L == {i \in Agents : people[i].health # "dead"}
            v == all_stats.vaccination_rates[Completed]
            c == all_stats.avg_social_contacts[Completed]
        IN  /\ error = "none"
            /\ v[2] > 0 /\ c[2] > 0
            /\ v[1] * Cardinality(L) =
                 v[2] * SumOver([i \in Agents |-> people[i].vaccinated], L)
            /\ c[1] * Cardinality(L) =
                 c[2] * SumOver([i \in Agents |-> people[i].social_contacts], L)
            /\ L = {} => (v = <<0, 1>> /\ c = <<0, 1>>)

\* every agent dead, one of them vaccinated, and both averages recorded as 0
C6_Witness ==
    /\ pc = "decay" /\ Completed = 1
    /\ \A i \in Agents : people[i].health = "dead"
    /\ \E i \in Agents : people[i].vaccinated = 1
    /\ all_stats.vaccination_rates[1] = <<0, 1>>
    /\ all_stats.avg_social_contacts[1] = <<0, 1>>

\* C7: with a cohort of no agents the visualizer leaves that cohort's block out, raises
\* nothing, overlays the text blocks and saves the figure.
C7_EmptyCohortHandled ==
    (pc \in {"done", "error"} /\ \E c \in Cohorts : \A i \in Agents : people[i].cohort_id # c) =>
        /\ error = "none"
        /\ figure_saved
        /\ \A j \in 1 .. Len(stats_text) : stats_text[j].n > 0

C8_Installed ==
    pc \in {"replay_step", "visualize", "done", "error"} =>
        \A i \in Agents :
            i \in DOMAIN q_tables => (people[i].q_table = q_tables[i] /\ people[i].epsilon = 0)

C8_Frame ==
    /\ pc = "replay_assign" =>
         \A i \in Agents : i \notin DOMAIN q_tables => people'[i] = people[i]
    /\ pc = "replay_step" =>
         \A i \in Agents : /\ people'[i].q_table = people[i].q_table
                           /\ people'[i].epsilon = people[i].epsilon

\* C8: from the first action of the replay on, every agent with a snapshot key has that
\* snapshot entry as its decision table and exploration rate 0; the assignment leaves
\* the other agents as env.reset produced them, and the replay loop changes no
\* agent's table reference or exploration rate.
C8_ReplaySetup == []C8_Installed /\ [][C8_Frame]_vars

\* the replay has stepped with agent 0 on its snapshot entry and agent 1, keyless,
\* still exploring
C8_Witness ==
    /\ pc = "replay_step" /\ current_step > 0
    /\ DOMAIN q_tables = {0}
    /\ people[0].epsilon = 0 /\ people[0].q_table = q_tables[0]
    /\ people[1].epsilon = epsilon_end

\* C9: the replay writes a tally for exactly the executed steps whose 0-based day is a
\* multiple of 7, in order; each tally counts every agent once; no tally belongs to a
\* day after the episode terminated or was truncated.
C9_TallySchedule ==
    /\ Len(tallies) = (current_step + TallyEvery - 1) \div TallyEvery
    /\ \A j \in 1 .. Len(tallies) :
         /\ tallies[j].day = TallyEvery * (j - 1)
         /\ tallies[j].day < current_step
         /\ tallies[j].S + tallies[j].E + tallies[j].I + tallies[j].R + tallies[j].D
              = num_people
         /\ \A m \in 1 .. tallies[j].day : m <= Len(stepLog) /\ ~Stops(stepLog[m])

\* tallies for day 0 and day 7, the second with an agent past "susceptible"
C9_Witness ==
    /\ Len(tallies) = 2
    /\ tallies[2].day = 7
    /\ tallies[2].S < num_people
    /\ current_step = 8

C10_Recorded ==
    \A k \in DOMAIN all_stats.cohort_stats :
        LET cs == all_stats.cohort_stats[k]
        IN  /\ \A c \in Cohorts :
                 SumOver(cs[c], Healths) = Cardinality({i \in Agents : people[i].cohort_id = c})
            /\ SumOver([c \in Cohorts |-> SumOver(cs[c], Healths)], Cohorts) = num_people

C10_Blocks ==
    (pc \in {"done", "error"} /\ error # "ZeroDivisionError") =>
        /\ \A j \in 1 .. Len(stats_text) :
             LET b == stats_text[j]
             IN  /\ b.susceptible + b.exposed + b.infected + b.recovered + b.dead = b.n
                 /\ b.n = Cardinality({i \in Agents : people[i].cohort_id = b.cohort})
        /\ SumOver([j \in 1 .. Len(stats_text) |-> stats_text[j].n], 1 .. Len(stats_text))
             = num_people

\* C10: in every recorded cohort statistics snapshot and in every block the visualizer
\* computes, the five health-state counts of a cohort add up to the cohort's size, and
\* the cohort sizes add up to the population.
C10_Conservation == C10_Recorded /\ C10_Blocks

\* the visualizer has computed the blocks of two cohorts, one of two agents in
\* different health states
C10_Witness ==
    /\ pc = "error"
    /\ Len(stats_text) = 2
    /\ \E j \in 1 .. 2 : stats_text[j].n = 2 /\ stats_text[j].dead = 1 /\ stats_text[j].infected = 1

====
